---------------------------- MODULE Spec2Model ----------------------------
(***************************************************************************)
(* Model of the trading-network graph visualisation:                       *)
(*   - the visual encoder of frontend/src/lib/d3-helpers.ts (pure          *)
(*     functions, specification SpecEnc),                                  *)
(*   - the ForceGraph component of                                         *)
(*     frontend/src/components/ForceGraph/ForceGraph.tsx (specification    *)
(*     SpecGraph).                                                         *)
(*                                                                         *)
(* Numbers.  Volatility, pressure, correlation and the percentile          *)
(* thresholds are reals in [0,1]; they are modelled on a grid, an integer  *)
(* k standing for k/Grid.  The encoder only compares such values and takes *)
(* quotients of their differences, so results are exact rationals, kept as *)
(* records [num, den, nan] with den > 0.  A division by zero yields a      *)
(* non-finite value in JavaScript (NaN or Infinity): nan = TRUE.           *)
(* Math.log and Math.pow are modelled at fixed precision.                  *)
(***************************************************************************)
EXTENDS Integers, Sequences, FiniteSets, TLC

VARIABLES
    thresholds,   \* encoder: the threshold set {p40, p60, p80, max} in use
    call,         \* encoder: the last encoder call, [fn, arg, res]
    data,         \* ForceGraph: the data prop (the input payload)
    mutableData,  \* ForceGraph: the working copy made at mount
    dimensions,   \* ForceGraph: the measured container size
    tick,         \* ForceGraph: the re-render counter bumped by handleTick
    frame,        \* ForceGraph: what the last render drew
    transform,    \* zoom: the viewport transform {scale, translateX, translateY}
    zoomLog,      \* zoom: the last command and the commands counted so far
    scrape_history, \* backend: the rows of table scrape_history, by id
    now,          \* backend: NOW(), in hours
    instances,    \* backend: each scraper instance's step and last answer
    sqlResult     \* backend: the last SQL function call and what it returned

encVars == <<thresholds, call>>
graphVars == <<data, mutableData, dimensions, tick, frame>>
zoomVars == <<transform, zoomLog>>
scrapeVars == <<scrape_history, now, instances, sqlResult>>
vars == <<thresholds, call, data, mutableData, dimensions, tick, frame,
          transform, zoomLog, scrape_history, now, instances, sqlResult>>

---------------------------------------------------------------------------
(* Bounds *)

\* Resolution of the grid of values in [0,1].
Grid == 4
\* Largest connectionCount tried.
MaxCount == 6
\* Largest maxConnections tried.
MaxMaxConnections == 4
\* Resolution of the fixed-point arithmetic that stands for Math.pow.
FP == 1000
\* Largest exponent of an opacity config, in halves.
MaxExponentHalves == 5
\* Number of viewport commands followed, and the largest pan offset.
MaxCommands == 4
MaxPan == 1
\* Backend: the latest hour, the number of rows followed, and the largest
\* min_interval (in hours).
MaxTime == 3
MaxRows == 2
MaxInterval == 2
\* Longest input node list and connection list.
MaxNodes == 3
MaxConnections == 2
\* Largest measured width and height.
MaxSize == 1
\* Number of simulation ticks followed.
MaxTicks == 2

Values == 0..Grid

---------------------------------------------------------------------------
(* Rationals *)

Rat(n, d) == [num |-> n, den |-> d, nan |-> FALSE]
NaN == [num |-> 0, den |-> 1, nan |-> TRUE]

\* n / d as JavaScript computes it: not finite when d = 0.
Quot(n, d) ==
    IF d = 0 THEN NaN
    ELSE IF d < 0 THEN Rat(-n, -d)
    ELSE Rat(n, d)

\* Comparisons of finite rationals (equal denominators are not multiplied
\* out, which keeps the fixed-point values within the integers).
RLe(a, b) ==
    IF a.den = b.den THEN a.num <= b.num ELSE a.num * b.den <= b.num * a.den
RLt(a, b) ==
    IF a.den = b.den THEN a.num < b.num ELSE a.num * b.den < b.num * a.den
REq(a, b) ==
    IF a.den = b.den THEN a.num = b.num ELSE a.num * b.den = b.num * a.den

\* Math.min(q, 1)
RMin1(q) ==
    IF q.nan THEN NaN
    ELSE IF q.num > q.den THEN Rat(1, 1) ELSE q

\* Math.round(n / d) for d > 0: the nearest integer, halves rounded up.
Round(n, d) == (2 * n + d) \div (2 * d)


---------------------------------------------------------------------------
(* d3-helpers.ts: node colour *)

\* A CSS colour: fmt "hex" for a "#rrggbb" literal, "rgb" for the template
\* string `rgb(r, g, b)`; the channels are what the string denotes.
Color(fmt, r, g, b) == [fmt |-> fmt, r |-> r, g |-> g, b |-> b, nan |-> FALSE]

White == Color("hex", 255, 255, 255)          \* "#ffffff"
VeryLightBlue == Color("hex", 219, 234, 254)  \* "#dbeafe"
DarkBlue == Color("hex", 30, 58, 138)         \* "#1e3a8a"
startColor == [r |-> 147, g |-> 197, b |-> 253]  \* #93c5fd
endColor == [r |-> 59, g |-> 130, b |-> 246]     \* #3b82f6

\* Math.round(start + (end - start) * position), position = posn / range
Channel(start, end, posn, range) ==
    Round(start * range + (end - start) * posn, range)

\* Variant: the gradient runs from the "low" to the "high" tier colour.

MidColorTowardsHigh(volatility, th) ==
    LET range == th.p80 - th.p60
        posn == volatility - th.p60
    IN  IF range = 0
        THEN [Color("rgb", 0, 0, 0) EXCEPT !.nan = TRUE]
        ELSE Color("rgb",
                   Channel(VeryLightBlue.r, DarkBlue.r, posn, range),
                   Channel(VeryLightBlue.g, DarkBlue.g, posn, range),
                   Channel(VeryLightBlue.b, DarkBlue.b, posn, range))

\* The body of the 60th-80th percentile branch.
MidColor(volatility, th) ==
    LET range == th.p80 - th.p60
        posn == volatility - th.p60
    IN  IF range = 0
        THEN [Color("rgb", 0, 0, 0) EXCEPT !.nan = TRUE]
        ELSE Color("rgb",
                   Channel(startColor.r, endColor.r, posn, range),
                   Channel(startColor.g, endColor.g, posn, range),
                   Channel(startColor.b, endColor.b, posn, range))

\* Variant: the tier tests use <= where the code uses <.

getNodeColorInclusiveBounds(volatility, th) ==
    IF volatility <= th.p40 THEN White
    ELSE IF volatility <= th.p60 THEN VeryLightBlue
    ELSE IF volatility <= th.p80 THEN MidColor(volatility, th)
    ELSE DarkBlue

\* Variant: the mid-tier test is volatility <= p80.

getNodeColorMidInclusive(volatility, th) ==
    IF volatility < th.p40 THEN White
    ELSE IF volatility < th.p60 THEN VeryLightBlue
    ELSE IF volatility <= th.p80 THEN MidColor(volatility, th)
    ELSE DarkBlue

getNodeColorWithThresholds(volatility, th) ==
    IF volatility < th.p40 THEN White
    ELSE IF volatility < th.p60 THEN VeryLightBlue
    ELSE IF volatility < th.p80 THEN MidColor(volatility, th)
    ELSE DarkBlue

---------------------------------------------------------------------------
(* d3-helpers.ts: connection width *)

\* Variant: 0.5 + correlation * 4.5

getConnectionWidthSpecEndpoints(correlation) ==
    Rat(5 * correlation.den + 45 * correlation.num, 10 * correlation.den)

\* 0.3 + correlation * 2.2
getConnectionWidth(correlation) ==
    Rat(3 * correlation.den + 22 * correlation.num, 10 * correlation.den)

---------------------------------------------------------------------------
(* d3-helpers.ts: node radius *)

minRadius == 5
maxRadius == 11
radiusRange == maxRadius - minRadius

\* Math.log(n) for n = 1..16, in thousandths, rounded down.
LnMilli == << 0, 693, 1098, 1386, 1609, 1791, 1945, 2079,
              2197, 2302, 2397, 2484, 2564, 2639, 2708, 2772 >>
Log(n) == LnMilli[n]

\* Variant: logCount is Math.log(connectionCount).

NormalizedCountNoPlusOne(connectionCount, maxConnections, useLogarithmic) ==
    IF useLogarithmic /\ connectionCount > 0
    THEN RMin1(Quot(Log(connectionCount), Log(maxConnections + 1)))
    ELSE RMin1(Quot(connectionCount, maxConnections))

\* Variant: no Math.min(.., 1).

NormalizedCountUnclamped(connectionCount, maxConnections, useLogarithmic) ==
    IF useLogarithmic /\ connectionCount > 0
    THEN Quot(Log(connectionCount + 1), Log(maxConnections + 1))
    ELSE Quot(connectionCount, maxConnections)

\* normalizedCount, both branches
NormalizedCount(connectionCount, maxConnections, useLogarithmic) ==
    IF useLogarithmic /\ connectionCount > 0
    THEN RMin1(Quot(Log(connectionCount + 1), Log(maxConnections + 1)))
    ELSE RMin1(Quot(connectionCount, maxConnections))

\* minRadius + normalizedCount * radiusRange
getNodeRadius(connectionCount, maxConnections, useLogarithmic) ==
    LET n == NormalizedCount(connectionCount, maxConnections, useLogarithmic)
    IN  IF n.nan THEN NaN
        ELSE Rat(minRadius * n.den + n.num * radiusRange, n.den)

---------------------------------------------------------------------------
(* d3-helpers.ts: connection opacity *)

\* Fixed-point numbers: an integer x in 0..FP stands for x / FP.
RECURSIVE IPow(_, _)
IPow(x, n) == IF n = 0 THEN FP ELSE (x * IPow(x, n - 1)) \div FP

RECURSIVE SqrtBetween(_, _, _)
\* the largest r in lo..hi with r * r <= v
SqrtBetween(v, lo, hi) ==
    IF lo >= hi THEN lo
    ELSE LET mid == (lo + hi + 1) \div 2
         IN  IF mid * mid <= v THEN SqrtBetween(v, mid, hi)
             ELSE SqrtBetween(v, lo, mid - 1)

\* Math.pow(x, e) for x in [0,1] and e = halves / 2, rounded down.
Pow(x, halves) == SqrtBetween(FP * IPow(x, halves), 0, FP)

\* minOpacity and maxOpacity in hundredths (0.15, 3.0), exponent in halves (2.5)
DEFAULT_OPACITY_CONFIG == [minOpacity |-> 15, maxOpacity |-> 300, exponent |-> 5]

Max(a, b) == IF a >= b THEN a ELSE b
Min(a, b) == IF a <= b THEN a ELSE b

\* Variant: the clamp written Math.min(0, Math.max(1, pressure)).
getEnhancedConnectionOpacityClampSwapped(pressure, config) ==
    IF pressure.nan THEN NaN
    ELSE
    LET clampedPressure == 0
        scaledValue == Pow(clampedPressure, config.exponent)
        opacity == config.minOpacity * FP
                   + (config.maxOpacity - config.minOpacity) * scaledValue
    IN  Rat(Max(config.minOpacity * FP, Min(config.maxOpacity * FP, opacity)),
            100 * FP)

\* The opacity, a rational with denominator 100 * FP.
getEnhancedConnectionOpacity(pressure, config) ==
    IF pressure.nan THEN NaN
    ELSE
    LET clampedPressure ==
            IF pressure.num < 0 THEN 0
            ELSE IF pressure.num > pressure.den THEN FP
            ELSE (pressure.num * FP) \div pressure.den
        scaledValue == Pow(clampedPressure, config.exponent)
        opacity == config.minOpacity * FP
                   + (config.maxOpacity - config.minOpacity) * scaledValue
    IN  Rat(Max(config.minOpacity * FP, Min(config.maxOpacity * FP, opacity)),
            100 * FP)

\* Sum of two rationals a + b / 4 with a given in quarters.
QuarterPlus(quarters, position) ==
    IF position.nan THEN NaN
    ELSE Rat(quarters * position.den + position.num, 4 * position.den)

\* Variant: the top tier does not cap its position at 1.

NormalizedPressureUnclampedTop(pressure, th) ==
    IF pressure < th.p40 THEN
        QuarterPlus(0, Quot(pressure, th.p40))
    ELSE IF pressure < th.p60 THEN
        LET range == th.p60 - th.p40
        IN  IF range = 0 THEN Rat(3, 8)
            ELSE QuarterPlus(1, Quot(pressure - th.p40, range))
    ELSE IF pressure < th.p80 THEN
        LET range == th.p80 - th.p60
        IN  IF range = 0 THEN Rat(5, 8)
            ELSE QuarterPlus(2, Quot(pressure - th.p60, range))
    ELSE
        LET range == th.max - th.p80
        IN  IF range = 0 THEN Rat(1, 1)
            ELSE QuarterPlus(3, Quot(pressure - th.p80, range))

\* Variant: the bottom tier is mapped to 0-0.5.

NormalizedPressureWideBottom(pressure, th) ==
    IF pressure < th.p40 THEN
        QuarterPlus(0, Quot(2 * pressure, th.p40))
    ELSE IF pressure < th.p60 THEN
        LET range == th.p60 - th.p40
        IN  IF range = 0 THEN Rat(3, 8)
            ELSE QuarterPlus(1, Quot(pressure - th.p40, range))
    ELSE IF pressure < th.p80 THEN
        LET range == th.p80 - th.p60
        IN  IF range = 0 THEN Rat(5, 8)
            ELSE QuarterPlus(2, Quot(pressure - th.p60, range))
    ELSE
        LET range == th.max - th.p80
        IN  IF range = 0 THEN Rat(1, 1)
            ELSE QuarterPlus(3, RMin1(Quot(pressure - th.p80, range)))

\* normalizedPressure: the four tiers, each mapped to a quarter of [0,1]
NormalizedPressure(pressure, th) ==
    IF pressure < th.p40 THEN
        QuarterPlus(0, Quot(pressure, th.p40))
    ELSE IF pressure < th.p60 THEN
        LET range == th.p60 - th.p40
        IN  IF range = 0 THEN Rat(3, 8)
            ELSE QuarterPlus(1, Quot(pressure - th.p40, range))
    ELSE IF pressure < th.p80 THEN
        LET range == th.p80 - th.p60
        IN  IF range = 0 THEN Rat(5, 8)
            ELSE QuarterPlus(2, Quot(pressure - th.p60, range))
    ELSE
        LET range == th.max - th.p80
        IN  IF range = 0 THEN Rat(1, 1)
            ELSE QuarterPlus(3, RMin1(Quot(pressure - th.p80, range)))

getEnhancedConnectionOpacityByPressure(pressure, th, config) ==
    getEnhancedConnectionOpacity(NormalizedPressure(pressure, th), config)

---------------------------------------------------------------------------
(* The encoder as a state machine: a threshold set is fixed, then the      *)
(* mappings are called with inputs from the grid.                          *)

ThresholdSets ==
    { [p40 |-> a, p60 |-> b, p80 |-> c, max |-> d] :
        <<a, b, c, d>> \in
            { t \in Values \X Values \X Values \X Values :
                t[1] <= t[2] /\ t[2] <= t[3] /\ t[3] <= t[4] } }

\* The viewport and the backend at rest, for the specifications that do
\* not use them.
DefaultTransform ==
    [scale |-> Rat(1, 1), translateX |-> 0, translateY |-> 0]

ZoomIdle ==
    /\ transform = DefaultTransform
    /\ zoomLog = [last |-> "none", zoomIns |-> 0, count |-> 0]

ScrapeIdle ==
    /\ scrape_history = <<>>
    /\ now = 0
    /\ instances = <<>>
    /\ sqlResult = [fn |-> "none"]

EncIdle ==
    /\ thresholds = [p40 |-> 0, p60 |-> 0, p80 |-> 0, max |-> 0]
    /\ call = [fn |-> "none"]

\* The graph component at rest, for the specifications that do not use it.
GraphIdle ==
    /\ data = [nodes |-> <<>>, connections |-> <<>>]
    /\ mutableData = [nodes |-> <<>>, connections |-> <<>>]
    /\ dimensions = [width |-> 0, height |-> 0]
    /\ tick = 0
    /\ frame = [placeholder |-> TRUE, lines |-> {}, circles |-> {}]

InitEnc ==
    /\ thresholds \in ThresholdSets
    /\ call = [fn |-> "none"]
    /\ GraphIdle
    /\ ZoomIdle
    /\ ScrapeIdle

ColorCall ==
    /\ call.fn = "none"
    /\ \E volatility \in Values :
        /\ call' = [fn |-> "color", arg |-> volatility,
                    res |-> getNodeColorWithThresholds(volatility, thresholds)]
        /\ UNCHANGED <<thresholds, graphVars, zoomVars, scrapeVars>>

OpacityCall ==
    /\ call.fn = "none"
    /\ \E pressure \in Values :
        /\ call' = [fn |-> "opacity", arg |-> pressure,
                    norm |-> NormalizedPressure(pressure, thresholds),
                    res |-> getEnhancedConnectionOpacityByPressure(
                                pressure, thresholds, DEFAULT_OPACITY_CONFIG)]
        /\ UNCHANGED <<thresholds, graphVars, zoomVars, scrapeVars>>

WidthCall ==
    /\ call.fn = "none"
    /\ \E correlation \in Values :
        /\ call' = [fn |-> "width", arg |-> correlation,
                    res |-> getConnectionWidth(Rat(correlation, Grid))]
        /\ UNCHANGED <<thresholds, graphVars, zoomVars, scrapeVars>>

RadiusCall ==
    /\ call.fn = "none"
    /\ \E connectionCount \in 0..MaxCount, maxConnections \in 1..MaxMaxConnections,
       useLogarithmic \in BOOLEAN :
        /\ call' = [fn |-> "radius",
                    arg |-> [connectionCount |-> connectionCount,
                             maxConnections |-> maxConnections,
                             useLogarithmic |-> useLogarithmic],
                    res |-> getNodeRadius(connectionCount, maxConnections,
                                          useLogarithmic)]
        /\ UNCHANGED <<thresholds, graphVars, zoomVars, scrapeVars>>

\* Opacity levels of a config, in hundredths.
OpacityLevels == {0, 15, 100, 300}

OpacityConfigs ==
    { c \in [minOpacity : OpacityLevels, maxOpacity : OpacityLevels,
             exponent : 1..MaxExponentHalves] :
        c.minOpacity <= c.maxOpacity }

\* Pressures handed to getEnhancedConnectionOpacity: in and outside [0,1].
WidePressures == (0 - Grid)..(2 * Grid)

EnhancedOpacityCall ==
    /\ call.fn = "none"
    /\ \E pressure \in WidePressures, config \in OpacityConfigs :
        /\ call' = [fn |-> "enhancedOpacity", arg |-> pressure,
                    config |-> config,
                    res |-> getEnhancedConnectionOpacity(Rat(pressure, Grid),
                                                         config)]
        /\ UNCHANGED <<thresholds, graphVars, zoomVars, scrapeVars>>

\* The call returns; the functions keep no state between calls.
Return ==
    /\ call.fn # "none"
    /\ call' = [fn |-> "none"]
    /\ UNCHANGED <<thresholds, graphVars, zoomVars, scrapeVars>>

NextEnc ==
    \/ ColorCall
    \/ OpacityCall
    \/ WidthCall
    \/ RadiusCall
    \/ EnhancedOpacityCall
    \/ Return

SpecEnc == InitEnc /\ [][NextEnc]_vars

---------------------------------------------------------------------------
(* Properties of the visual encoder (SpecEnc) *)

\* The tier a returned colour belongs to: none 0, low 1, mid 2, high 3.
TierRank(color) ==
    IF color = White THEN 0
    ELSE IF color = VeryLightBlue THEN 1
    ELSE IF color = DarkBlue THEN 3
    ELSE 2

Between(x, lo, hi) == lo <= x /\ x <= hi

\* C3: getNodeColorWithThresholds returns the "none" colour for
\* value < p40, the "low" colour for p40 <= value < p60, an interpolated
\* rgb colour for p60 <= value < p80 and the "high" colour for value >= p80,
\* and the tier of the returned colour is the one tier whose interval holds
\* the value.
C3_ColorTiering ==
    call.fn = "color" =>
        LET v == call.arg
            th == thresholds
            tierOfValue == IF v < th.p40 THEN 0
                           ELSE IF v < th.p60 THEN 1
                           ELSE IF v < th.p80 THEN 2 ELSE 3
        IN  /\ v < th.p40 => call.res = White
            /\ (th.p40 <= v /\ v < th.p60) => call.res = VeryLightBlue
            /\ (th.p60 <= v /\ v < th.p80) =>
                   /\ call.res.fmt = "rgb"
                   /\ ~call.res.nan
                   /\ Between(call.res.r, endColor.r, startColor.r)
                   /\ Between(call.res.g, endColor.g, startColor.g)
                   /\ Between(call.res.b, endColor.b, startColor.b)
            /\ v >= th.p80 => call.res = DarkBlue
            /\ TierRank(call.res) = tierOfValue

C3_Witness ==
    /\ call.fn = "color"
    /\ thresholds.p40 < thresholds.p60
    /\ thresholds.p60 < call.arg
    /\ call.arg < thresholds.p80
    /\ call.res.fmt = "rgb"

SameRGB(c, d) == c.r = d.r /\ c.g = d.g /\ c.b = d.b

\* C4 as stated: for p60 < p80 the mid-tier colour at value = p60 equals
\* the colour returned for the low tier ("#dbeafe").
C4_MidStartsAtLowTierColor ==
    (/\ call.fn = "color"
     /\ thresholds.p60 < thresholds.p80
     /\ call.arg = thresholds.p60)
        => SameRGB(call.res, VeryLightBlue)

Abs(x) == IF x < 0 THEN -x ELSE x

\* The channel is within half a unit of the linear interpolation from
\* `from` (position 0) to `to` (position 1) at position posn / range.
Interpolates(channel, from, to, posn, range) ==
    Abs(2 * (channel * range - (from * range + (to - from) * posn))) <= range

\* C4 amended: for p60 < p80 and p60 <= value < p80 every channel of the
\* mid-tier colour is the rounded linear interpolation between #93c5fd
\* (147, 197, 253) at value = p60 and #3b82f6 (59, 130, 246) at p80; at
\* value = p60 the colour is exactly rgb(147, 197, 253).
C4_MidInterpolation ==
    (/\ call.fn = "color"
     /\ thresholds.p60 <= call.arg
     /\ call.arg < thresholds.p80)
        => LET range == thresholds.p80 - thresholds.p60
               posn == call.arg - thresholds.p60
           IN  /\ ~call.res.nan
               /\ Interpolates(call.res.r, 147, 59, posn, range)
               /\ Interpolates(call.res.g, 197, 130, posn, range)
               /\ Interpolates(call.res.b, 253, 246, posn, range)
               /\ posn = 0 => /\ call.res.r = 147
                              /\ call.res.g = 197
                              /\ call.res.b = 253

C4_Witness ==
    /\ call.fn = "color"
    /\ thresholds.p60 < thresholds.p80
    /\ call.arg = thresholds.p60
    /\ call.res.fmt = "rgb"

\* C5: with p80 = p60 getNodeColorWithThresholds never divides by a zero
\* range, and a value >= p60 gets the "high" colour, never an interpolated
\* one.
C5_DegenerateThresholds ==
    (call.fn = "color" /\ thresholds.p80 = thresholds.p60)
        => /\ ~call.res.nan
           /\ call.res.fmt # "rgb"
           /\ call.arg >= thresholds.p60 => call.res = DarkBlue

C5_Witness ==
    /\ call.fn = "color"
    /\ thresholds.p80 = thresholds.p60
    /\ thresholds.p40 < thresholds.p60
    /\ call.arg = thresholds.p60
    /\ call.res = DarkBlue

\* Colour c ranks no higher than colour d: a lower tier, or the same tier
\* and, inside the mid tier, a position no further along the gradient.
ColorRankLe(c, d) ==
    \/ TierRank(c) < TierRank(d)
    \/ /\ TierRank(c) = TierRank(d)
       /\ TierRank(c) = 2 => c.r >= d.r /\ c.g >= d.g /\ c.b >= d.b

\* C6: for a fixed threshold set and inputs a <= b in [0,1], the colour of
\* a ranks no higher than the colour of b, and the opacity of a under the
\* default config is <= the opacity of b.
C6_Monotone ==
    /\ call.fn = "color" =>
           \A b \in Values :
               call.arg <= b =>
                   LET colorB == getNodeColorWithThresholds(b, thresholds)
                   IN  ~call.res.nan /\ ~colorB.nan
                       /\ ColorRankLe(call.res, colorB)
    /\ call.fn = "opacity" =>
           \A b \in Values :
               call.arg <= b =>
                   LET opacityB == getEnhancedConnectionOpacityByPressure(
                                       b, thresholds, DEFAULT_OPACITY_CONFIG)
                   IN  ~call.res.nan /\ ~opacityB.nan
                       /\ RLe(call.res, opacityB)

\* a pair straddling a tier boundary where two boundaries coincide
C6_Witness ==
    /\ call.fn = "opacity"
    /\ call.arg < thresholds.p40
    /\ thresholds.p40 = thresholds.p60
    /\ thresholds.p60 < thresholds.p80
    /\ call.arg > 0
    /\ RLt(call.res, getEnhancedConnectionOpacityByPressure(
                         thresholds.p40, thresholds, DEFAULT_OPACITY_CONFIG))

\* C7 as stated: getConnectionWidth(0) = 0.5 and getConnectionWidth(1) = 5.
C7_WidthEndpointsHalfAndFive ==
    call.fn = "width" =>
        /\ call.arg = 0 => REq(call.res, Rat(1, 2))
        /\ call.arg = Grid => REq(call.res, Rat(5, 1))

\* C7 amended: getConnectionWidth(0) = 0.3 and getConnectionWidth(1) = 2.5,
\* and the width is linear (0.3 + 2.2 * correlation) and non-decreasing in
\* the correlation between those endpoints.
C7_WidthEndpoints ==
    call.fn = "width" =>
        /\ call.arg = 0 => REq(call.res, Rat(3, 10))
        /\ call.arg = Grid => REq(call.res, Rat(25, 10))
        /\ REq(call.res, Rat(3 * Grid + 22 * call.arg, 10 * Grid))
        /\ \A b \in Values :
               call.arg <= b => RLe(call.res, getConnectionWidth(Rat(b, Grid)))

C7_Witness ==
    /\ call.fn = "width"
    /\ call.arg = Grid
    /\ REq(call.res, Rat(5, 2))

\* C8: in logarithmic mode getNodeRadius returns the minimum radius 5 for
\* connectionCount = 0 and the maximum radius 11 for connectionCount =
\* maxConnections, for every maxConnections > 0.
C8_RadiusEndpoints ==
    (call.fn = "radius" /\ call.arg.useLogarithmic) =>
        /\ ~call.res.nan
        /\ call.arg.connectionCount = 0 => REq(call.res, Rat(5, 1))
        /\ call.arg.connectionCount = call.arg.maxConnections
               => REq(call.res, Rat(11, 1))

C8_Witness ==
    /\ call.fn = "radius"
    /\ call.arg.useLogarithmic
    /\ call.arg.maxConnections > 1
    /\ call.arg.connectionCount = call.arg.maxConnections
    /\ REq(call.res, Rat(11, 1))

\* C9: in both modes getNodeRadius returns a value in [5, 11], is
\* non-decreasing in connectionCount, and returns exactly 11 for every
\* connectionCount >= maxConnections.
C9_RadiusRange ==
    call.fn = "radius" =>
        LET a == call.arg
        IN  /\ ~call.res.nan
            /\ RLe(Rat(5, 1), call.res)
            /\ RLe(call.res, Rat(11, 1))
            /\ \A more \in 0..MaxCount :
                   a.connectionCount <= more =>
                       RLe(call.res,
                           getNodeRadius(more, a.maxConnections,
                                         a.useLogarithmic))
            /\ a.connectionCount >= a.maxConnections
                   => REq(call.res, Rat(11, 1))

C9_Witness ==
    /\ call.fn = "radius"
    /\ ~call.arg.useLogarithmic
    /\ call.arg.connectionCount > call.arg.maxConnections
    /\ REq(call.res, Rat(11, 1))

\* C10: for pressure in [0,1] and 0 <= p40 <= p60 <= p80 <= max the
\* normalized pressure is finite and lies in [0, 0.25] for pressure < p40,
\* in [0.25, 0.5] for p40 <= pressure < p60, in [0.5, 0.75] for
\* p60 <= pressure < p80 and in [0.75, 1] for pressure >= p80; no tier
\* divides by a zero range.
C10_NormalizedPressureRanges ==
    call.fn = "opacity" =>
        LET p == call.arg
            th == thresholds
            n == call.norm
            In(lo, hi) == RLe(lo, n) /\ RLe(n, hi)
        IN  /\ ~n.nan
            /\ p < th.p40 => In(Rat(0, 1), Rat(1, 4))
            /\ (th.p40 <= p /\ p < th.p60) => In(Rat(1, 4), Rat(1, 2))
            /\ (th.p60 <= p /\ p < th.p80) => In(Rat(1, 2), Rat(3, 4))
            /\ p >= th.p80 => In(Rat(3, 4), Rat(1, 1))

\* a pressure above the sample maximum, in a high tier of positive range
C10_Witness ==
    /\ call.fn = "opacity"
    /\ thresholds.p80 < thresholds.max
    /\ call.arg > thresholds.max
    /\ REq(call.norm, Rat(1, 1))

---------------------------------------------------------------------------
(* ForceGraph.tsx *)

NodeIds == {"a", "b"}
\* "z" is the id of no node.
EndpointIds == NodeIds \cup {"z"}

\* A property that is absent reads as undefined; a number v is held as <<v>>.
Undefined == <<>>
Num(v) == <<v>>

\* The source or target of a connection is a string (a node id) or, once
\* bound, a node object (the node at `index` of the node list).
StringValue(id) == [type |-> "string", id |-> id, index |-> 0]
NodeReference(nodes, index) ==
    [type |-> "object", id |-> nodes[index].id, index |-> index]

\* Every object has an identity, ref: the collection it was created for
\* and its place there.  Two records of one ref are one object.
\* Input payloads: node i carries volatility i / Grid, so that two nodes of
\* one id differ in their attributes; it has no x, y, vx, vy.
InputNodeLists ==
    UNION { { [i \in 1..n |->
                 [ref |-> [owner |-> "data", index |-> i],
                  id |-> ids[i], volatility |-> i,
                  x |-> Undefined, y |-> Undefined,
                  vx |-> Undefined, vy |-> Undefined]] :
                ids \in [1..n -> NodeIds] } : n \in 0..MaxNodes }

InputConnections ==
    { [source |-> s, target |-> t, correlation |-> Grid] :
        s \in EndpointIds, t \in EndpointIds }

InputConnectionLists ==
    UNION { { [i \in 1..n |->
                 [ref |-> [owner |-> "data", index |-> i],
                  source |-> StringValue(c[i].source),
                  target |-> StringValue(c[i].target),
                  correlation |-> c[i].correlation]] :
                c \in [1..n -> InputConnections] } : n \in 0..MaxConnections }

\* Variant: the input node itself, no copy.
CopyNodeAlias(node) == node

\* { ...node }: a new object with the fields of the input node
CopyNode(node) == [node EXCEPT !.ref.owner = "mutableData"]

\* { ...conn }
CopyConnection(conn) == [conn EXCEPT !.ref.owner = "mutableData"]

HasId(nodeMap, id) == \E j \in 1..Len(nodeMap) : nodeMap[j].id = id

RECURSIVE UniqueNodesOverwriting(_, _, _)
\* a Map written without the has() test: a later node replaces the value
\* of its key, which keeps its place in the insertion order
UniqueNodesOverwriting(nodes, i, nodeMap) ==
    IF i > Len(nodes) THEN nodeMap
    ELSE UniqueNodesOverwriting(nodes, i + 1,
            IF HasId(nodeMap, nodes[i].id)
            THEN [j \in 1..Len(nodeMap) |->
                    IF nodeMap[j].id = nodes[i].id THEN CopyNode(nodes[i])
                    ELSE nodeMap[j]]
            ELSE Append(nodeMap, CopyNode(nodes[i])))

RECURSIVE UniqueNodesFrom(_, _, _)
\* data.nodes.forEach over nodes[i..], nodeMap held as its values in
\* insertion order (the order of Array.from(nodeMap.values()))
UniqueNodesFrom(nodes, i, nodeMap) ==
    IF i > Len(nodes) THEN nodeMap
    ELSE UniqueNodesFrom(nodes, i + 1,
            IF ~HasId(nodeMap, nodes[i].id)
            THEN Append(nodeMap, CopyNode(nodes[i]))
            ELSE nodeMap)

\* The lazy initializer of the mutableData state.
MutableDataInitializer(d) ==
    [nodes |-> UniqueNodesFrom(d.nodes, 1, <<>>),
     connections |-> [i \in 1..Len(d.connections) |->
                         CopyConnection(d.connections[i])]]

\* The arguments of the useForceSimulation call of a render.
SimulationArgs ==
    [nodes |-> mutableData.nodes,
     connections |-> mutableData.connections,
     width |-> dimensions.width,
     height |-> dimensions.height]

\* typeof v === "string"
IsString(v) == v.type = "string"

\* nodes.find((n) => n.id === id): the index of the first match, 0 if none
Find(nodes, id) ==
    IF \E j \in 1..Len(nodes) : nodes[j].id = id
    THEN CHOOSE j \in 1..Len(nodes) :
            /\ nodes[j].id = id
            /\ \A k \in 1..(j - 1) : nodes[k].id # id
    ELSE 0

\* An endpoint of a connection as the render resolves it: an index into
\* the node list, 0 when no node is found.
Resolve(md, endpoint) ==
    IF IsString(endpoint) THEN Find(md.nodes, endpoint.id) ELSE endpoint.index

HasPosition(node) == node.x # Undefined /\ node.y # Undefined

\* Variant: elements are drawn without the test of x and y.
RenderWithoutPositionTest(md, dims) ==
    IF dims.width = 0 \/ dims.height = 0
    THEN [placeholder |-> TRUE, lines |-> {}, circles |-> {}]
    ELSE [placeholder |-> FALSE,
          lines |-> { i \in 1..Len(md.connections) :
                        /\ Resolve(md, md.connections[i].source) # 0
                        /\ Resolve(md, md.connections[i].target) # 0 },
          circles |-> 1..Len(md.nodes)]

\* What a render of the component draws.
Render(md, dims) ==
    IF dims.width = 0 \/ dims.height = 0
    THEN [placeholder |-> TRUE, lines |-> {}, circles |-> {}]
    ELSE [placeholder |-> FALSE,
          lines |-> { i \in 1..Len(md.connections) :
                        LET source == Resolve(md, md.connections[i].source)
                            target == Resolve(md, md.connections[i].target)
                        IN  /\ source # 0
                            /\ target # 0
                            /\ HasPosition(md.nodes[source])
                            /\ HasPosition(md.nodes[target]) },
          circles |-> { i \in 1..Len(md.nodes) : HasPosition(md.nodes[i]) }]

InitGraph ==
    /\ data \in [nodes : InputNodeLists, connections : InputConnectionLists]
    /\ mutableData = MutableDataInitializer(data)
    /\ dimensions = [width |-> 0, height |-> 0]
    /\ tick = 0
    /\ frame = Render(mutableData, dimensions)
    /\ EncIdle
    /\ ZoomIdle
    /\ ScrapeIdle

\* Variant: the working copy is rebuilt from the data prop on a resize.
measureContainerRecopying ==
    \E width \in 0..MaxSize, height \in 0..MaxSize :
        /\ dimensions' = [width |-> width, height |-> height]
        /\ mutableData' = MutableDataInitializer(data)
        /\ frame' = Render(mutableData', dimensions')
        /\ UNCHANGED <<data, tick, encVars, zoomVars, scrapeVars>>

\* measureContainer, on mount and on every window resize
measureContainer ==
    \E width \in 0..MaxSize, height \in 0..MaxSize :
        /\ dimensions' = [width |-> width, height |-> height]
        /\ frame' = Render(mutableData, dimensions')
        /\ UNCHANGED <<data, mutableData, tick, encVars, zoomVars, scrapeVars>>

\* The simulation binds an endpoint id to the node of that id; an endpoint
\* that names no node is left as it is.
Bind(nodes, endpoint) ==
    IF IsString(endpoint) /\ Find(nodes, endpoint.id) # 0
    THEN NodeReference(nodes, Find(nodes, endpoint.id))
    ELSE endpoint

\* One step of the simulation on the node objects: the first step places
\* every node at rest, a later step moves it.
StepNode(node, i) ==
    IF node.x = Undefined
    THEN [node EXCEPT !.x = Num(i), !.y = Num(i), !.vx = Num(0), !.vy = Num(0)]
    ELSE [node EXCEPT !.x = Num(node.x[1] + 1), !.y = Num(node.y[1] + 1),
                      !.vx = Num(1), !.vy = Num(1)]

\* The list after a write to the objects of `written`: an object of the
\* list that is one of the written objects shows what was written.
SharedWrite(objects, written) ==
    [k \in 1..Len(objects) |->
        IF \E j \in 1..Len(written) : written[j].ref = objects[k].ref
        THEN written[CHOOSE j \in 1..Len(written) :
                        written[j].ref = objects[k].ref]
        ELSE objects[k]]

\* A tick of the simulation of useForceSimulation, which mutates the
\* objects it was given and then calls onTick (handleTick).
SimulationTick ==
    /\ dimensions.width > 0
    /\ dimensions.height > 0
    /\ tick < MaxTicks
    /\ mutableData' =
        [nodes |-> [i \in 1..Len(mutableData.nodes) |->
                       StepNode(mutableData.nodes[i], i)],
         connections |-> [i \in 1..Len(mutableData.connections) |->
            LET c == mutableData.connections[i]
            IN  IF /\ Resolve(mutableData, c.source) # 0
                   /\ Resolve(mutableData, c.target) # 0
                THEN [c EXCEPT !.source = Bind(mutableData.nodes, c.source),
                               !.target = Bind(mutableData.nodes, c.target)]
                ELSE c]]
    /\ data' = [nodes |-> SharedWrite(data.nodes, mutableData'.nodes),
                connections |-> SharedWrite(data.connections,
                                            mutableData'.connections)]
    /\ tick' = tick + 1
    /\ frame' = Render(mutableData', dimensions)
    /\ UNCHANGED <<dimensions, encVars, zoomVars, scrapeVars>>

NextGraph == measureContainer \/ SimulationTick

SpecGraph == InitGraph /\ [][NextGraph]_vars

---------------------------------------------------------------------------
(* Properties of the ForceGraph component (SpecGraph) *)

\* The index of the first node of id `id` in the input node list.
FirstOccurrence(id) ==
    CHOOSE i \in 1..Len(data.nodes) :
        /\ data.nodes[i].id = id
        /\ \A k \in 1..(i - 1) : data.nodes[k].id # id

\* C1: the node list handed to the simulation and to rendering holds
\* exactly one node per distinct id of the input, each with the attributes
\* of the first input node of that id, in the order of the first
\* occurrences.
C1_NodeDeduplication ==
    LET nodes == SimulationArgs.nodes
        n == Len(nodes)
    IN  /\ \A j, k \in 1..n : nodes[j].id = nodes[k].id => j = k
        /\ { nodes[j].id : j \in 1..n }
             = { data.nodes[i].id : i \in 1..Len(data.nodes) }
        /\ \A j \in 1..n :
               nodes[j].volatility
                 = data.nodes[FirstOccurrence(nodes[j].id)].volatility
        /\ \A j, k \in 1..n :
               j < k => FirstOccurrence(nodes[j].id)
                          < FirstOccurrence(nodes[k].id)
        /\ frame.circles \subseteq 1..n

\* input a, b, a: the second "a" is dropped, and the graph has been drawn
C1_Witness ==
    /\ Len(data.nodes) = 3
    /\ data.nodes[1].id = data.nodes[3].id
    /\ data.nodes[1].id # data.nodes[2].id
    /\ Len(SimulationArgs.nodes) = 2
    /\ frame.circles = {1, 2}

IdsOf(nodes) == { nodes[j].id : j \in 1..Len(nodes) }

\* C2: no connection whose source or target is not the id of a node of the
\* deduplicated node list is in the connections passed to the simulation,
\* and none is drawn.
C2_DanglingEdgesDropped ==
    LET args == SimulationArgs
    IN  /\ \A i \in 1..Len(args.connections) :
               /\ args.connections[i].source.id \in IdsOf(args.nodes)
               /\ args.connections[i].target.id \in IdsOf(args.nodes)
        /\ \A i \in frame.lines :
               /\ mutableData.connections[i].source.id \in IdsOf(args.nodes)
               /\ mutableData.connections[i].target.id \in IdsOf(args.nodes)

---------------------------------------------------------------------------
(* Properties of getEnhancedConnectionOpacity (SpecEnc) *)

\* A config level in hundredths as an opacity value.
Level(hundredths) == Rat(hundredths * FP, 100 * FP)

\* C11: for every pressure, also outside [0,1], and every config with
\* minOpacity <= maxOpacity and exponent > 0, getEnhancedConnectionOpacity
\* returns a value in [minOpacity, maxOpacity], minOpacity for
\* pressure <= 0 and maxOpacity for pressure >= 1.
C11_OpacityRange ==
    call.fn = "enhancedOpacity" =>
        /\ ~call.res.nan
        /\ RLe(Level(call.config.minOpacity), call.res)
        /\ RLe(call.res, Level(call.config.maxOpacity))
        /\ call.arg <= 0 => REq(call.res, Level(call.config.minOpacity))
        /\ call.arg >= Grid => REq(call.res, Level(call.config.maxOpacity))

C11_Witness ==
    /\ call.fn = "enhancedOpacity"
    /\ call.arg > Grid
    /\ call.config.minOpacity < call.config.maxOpacity
    /\ REq(call.res, Level(call.config.maxOpacity))

---------------------------------------------------------------------------
(* The viewport controller (useZoom, wired to ZoomControls by the page) *)

\* The zoom factor 1.3 and the scale range [0.1, 10].
Times(q, n, d) == Rat(q.num * n, q.den * d)

ClampScale(q) ==
    IF RLt(q, Rat(1, 10)) THEN Rat(1, 10)
    ELSE IF RLt(Rat(10, 1), q) THEN Rat(10, 1)
    ELSE q

Logged(command) ==
    [last |-> command,
     zoomIns |-> zoomLog.zoomIns + (IF command = "zoomIn" THEN 1 ELSE 0),
     count |-> zoomLog.count + 1]

\* zoomIn(): the scale times 1.3
zoomIn ==
    /\ zoomLog.count < MaxCommands
    /\ transform' = [transform EXCEPT
                        !.scale = ClampScale(Times(transform.scale, 13, 10))]
    /\ zoomLog' = Logged("zoomIn")
    /\ UNCHANGED <<encVars, graphVars, scrapeVars>>

\* zoomOut(): the scale times 1 / 1.3
zoomOut ==
    /\ zoomLog.count < MaxCommands
    /\ transform' = [transform EXCEPT
                        !.scale = ClampScale(Times(transform.scale, 10, 13))]
    /\ zoomLog' = Logged("zoomOut")
    /\ UNCHANGED <<encVars, graphVars, scrapeVars>>

\* a drag sets the translation
setPan ==
    /\ zoomLog.count < MaxCommands
    /\ \E dx \in (0 - MaxPan)..MaxPan, dy \in (0 - MaxPan)..MaxPan :
           transform' = [transform EXCEPT !.translateX = dx, !.translateY = dy]
    /\ zoomLog' = Logged("setPan")
    /\ UNCHANGED <<encVars, graphVars, scrapeVars>>

\* Variant: the scale is restored, the translation is kept.
ResetKeepingPan == [transform EXCEPT !.scale = Rat(1, 1)]

\* The transform after resetZoom(): the initial state.
ResetTransform == DefaultTransform

resetZoom ==
    /\ zoomLog.count < MaxCommands
    /\ transform' = ResetTransform
    /\ zoomLog' = Logged("resetZoom")
    /\ UNCHANGED <<encVars, graphVars, scrapeVars>>

InitZoom ==
    /\ ZoomIdle
    /\ EncIdle
    /\ GraphIdle
    /\ ScrapeIdle

NextZoom == zoomIn \/ zoomOut \/ setPan \/ resetZoom

SpecZoom == InitZoom /\ [][NextZoom]_vars

\* C12: from the default transform, after any zoomIn, zoomOut (and pan)
\* commands followed by one reset the transform is exactly
\* {scale = 1, translate = (0, 0)}.
C12_ZoomReset ==
    zoomLog.last = "resetZoom" =>
        /\ transform.scale = Rat(1, 1)
        /\ transform.translateX = 0
        /\ transform.translateY = 0

\* three zoomIn calls, then reset
C12_Witness ==
    /\ zoomLog.last = "resetZoom"
    /\ zoomLog.zoomIns = 3
    /\ zoomLog.count = 4
    /\ transform = DefaultTransform

---------------------------------------------------------------------------
(* Further properties of the ForceGraph component (SpecGraph) *)

\* C13: a resize changes only the measured bounds handed to the
\* simulation: the node list, every node's x, y, vx, vy, the connection
\* list and the identity of the objects are as before it.
C13_ResizeFrame ==
    [][dimensions' # dimensions =>
          /\ mutableData' = mutableData
          /\ SimulationArgs'.nodes = SimulationArgs.nodes
          /\ SimulationArgs'.connections = SimulationArgs.connections
          /\ data' = data]_vars

\* a resize after the nodes were placed
C13_Witness ==
    /\ tick > 0
    /\ dimensions.width = 0
    /\ Len(mutableData.nodes) > 0
    /\ HasPosition(mutableData.nodes[1])
    /\ mutableData.nodes[1].vx # Undefined

\* C17: a connection is drawn only if both endpoints resolve, by id while
\* a string and as the bound node afterwards, to nodes of the node list
\* with x and y defined; a node is drawn only with x and y defined;
\* nothing is drawn while the measured width or height is 0.
C17_RenderGuard ==
    /\ \A i \in frame.lines :
           LET c == mutableData.connections[i]
               EndpointNode(e) ==
                   IF e.type = "string"
                   THEN { j \in 1..Len(mutableData.nodes) :
                            mutableData.nodes[j].id = e.id }
                   ELSE { e.index } \cap (1..Len(mutableData.nodes))
           IN  /\ i \in 1..Len(mutableData.connections)
               /\ \E j \in EndpointNode(c.source) :
                      HasPosition(mutableData.nodes[j])
               /\ \E j \in EndpointNode(c.target) :
                      HasPosition(mutableData.nodes[j])
    /\ \A i \in frame.circles :
           /\ i \in 1..Len(mutableData.nodes)
           /\ mutableData.nodes[i].x # Undefined
           /\ mutableData.nodes[i].y # Undefined
    /\ (dimensions.width = 0 \/ dimensions.height = 0) =>
           frame.lines = {} /\ frame.circles = {} /\ frame.placeholder

\* one connection drawn, one with a missing endpoint skipped
C17_Witness ==
    /\ frame.lines # {}
    /\ \E i \in 1..Len(mutableData.connections) :
           /\ i \notin frame.lines
           /\ mutableData.connections[i].target.id \notin NodeIds
           /\ mutableData.connections[i].source.id
                \in { mutableData.nodes[j].id : j \in 1..Len(mutableData.nodes) }

RefsOf(md) ==
    << [i \in 1..Len(md.nodes) |-> md.nodes[i].ref],
       [i \in 1..Len(md.connections) |-> md.connections[i].ref] >>

\* The input objects have their original fields only.
InputUntouched ==
    /\ \A i \in 1..Len(data.nodes) :
           /\ data.nodes[i].x = Undefined
           /\ data.nodes[i].y = Undefined
           /\ data.nodes[i].vx = Undefined
           /\ data.nodes[i].vy = Undefined
    /\ \A i \in 1..Len(data.connections) :
           /\ IsString(data.connections[i].source)
           /\ IsString(data.connections[i].target)

\* The working objects are not input objects.
WorkingCopiesAreCopies ==
    /\ \A j \in 1..Len(mutableData.nodes) :
           mutableData.nodes[j].ref.owner = "mutableData"
    /\ \A j \in 1..Len(mutableData.connections) :
           mutableData.connections[j].ref.owner = "mutableData"

---------------------------------------------------------------------------
(* supabase_migrations.sql: scrape_history and its functions.              *)
(* Timestamps and intervals are whole hours; NULL is the empty tuple and a *)
(* nullable column holding v is <<v>>.                                     *)

Null == <<>>
\* INTERVAL '2 hours'
TwoHours == 2

Intervals == 0..MaxInterval
Ids(history) == 1..Len(history)

\* A row as INSERT INTO scrape_history makes it from the column defaults.
NewRow(t) ==
    [started_at |-> t, completed_at |-> Null, status |-> "running",
     error_message |-> Null]

\* Variant: ORDER BY started_at ASC
OldestRunningScrape(history) ==
    LET running == { i \in Ids(history) : history[i].status = "running" }
    IN  IF running = {} THEN 0
        ELSE CHOOSE i \in running :
                \A j \in running :
                    history[i].started_at <= history[j].started_at

\* SELECT ... WHERE status = 'running' ORDER BY started_at DESC LIMIT 1:
\* the id of the row, 0 when there is none
LastRunningScrape(history) ==
    LET running == { i \in Ids(history) : history[i].status = "running" }
    IN  IF running = {} THEN 0
        ELSE CHOOSE i \in running :
                \A j \in running :
                    history[i].started_at >= history[j].started_at

\* SELECT ... WHERE status = 'completed' ORDER BY completed_at DESC LIMIT 1
\* (a NULL completed_at sorts first)
LastCompletedScrape(history) ==
    LET completed == { i \in Ids(history) : history[i].status = "completed" }
        Before(a, b) ==
            \/ history[a].completed_at = Null
            \/ /\ history[b].completed_at # Null
               /\ history[a].completed_at[1] >= history[b].completed_at[1]
    IN  IF completed = {} THEN 0
        ELSE CHOOSE i \in completed : \A j \in completed : Before(i, j)

\* Variant: a running row blocks whatever its age.
RunningBlocksAlways(row, t) == TRUE

\* last_running_scrape.started_at > NOW() - INTERVAL '2 hours'
RunningBlocks(row, t) == row.started_at > t - TwoHours

\* Variant: completed_at <= NOW() - interval
IntervalPassedInclusive(row, t, min_interval) ==
    /\ row.completed_at # Null
    /\ row.completed_at[1] <= t - min_interval

\* last_completed_scrape.completed_at < NOW() - min_interval (NULL when
\* completed_at is NULL, which takes the ELSE branch)
IntervalPassed(row, t, min_interval) ==
    /\ row.completed_at # Null
    /\ row.completed_at[1] < t - min_interval

should_run_scrape(history, t, min_interval) ==
    LET last_running_scrape == LastRunningScrape(history)
        last_completed_scrape == LastCompletedScrape(history)
    IN  IF /\ last_running_scrape # 0
           /\ RunningBlocks(history[last_running_scrape], t)
        THEN [should_run |-> FALSE,
              last_scrape_time |-> <<history[last_running_scrape].started_at>>,
              last_scrape_status |-> <<"running">>]
        ELSE IF last_completed_scrape = 0
        THEN [should_run |-> TRUE,
              last_scrape_time |-> Null,
              last_scrape_status |-> Null]
        ELSE [should_run |->
                 IntervalPassed(history[last_completed_scrape], t, min_interval),
              last_scrape_time |-> history[last_completed_scrape].completed_at,
              last_scrape_status |-> <<"completed">>]

\* Variant: the UPDATE has no status = 'running' condition.
IsStaleWhateverStatus(row, t) == row.started_at < t - TwoHours

\* WHERE status = 'running' AND started_at < NOW() - INTERVAL '2 hours'
IsStale(row, t) ==
    /\ row.status = "running"
    /\ row.started_at < t - TwoHours

\* The table after the UPDATE of cleanup_stale_scrapes.
CleanedUp(history, t) ==
    [i \in Ids(history) |->
        IF IsStale(history[i], t)
        THEN [history[i] EXCEPT
                 !.status = "failed",
                 !.error_message = <<"Scrape timed out - marked as stale">>,
                 !.completed_at = <<t>>]
        ELSE history[i]]

\* ROW_COUNT of that UPDATE
UpdatedCount(history, t) ==
    Cardinality({ i \in Ids(history) : IsStale(history[i], t) })

---------------------------------------------------------------------------
(* The backend as a state machine: scraper instances that ask             *)
(* should_run_scrape and, on TRUE, insert a 'running' row and later mark  *)
(* it completed or failed, or die; cleanup_stale_scrapes; the clock.      *)

Instances == {"scraper-1", "scraper-2"}
NoCall == [fn |-> "none"]

InitScrape ==
    /\ scrape_history = <<>>
    /\ now = 0
    /\ instances = [i \in Instances |-> [pc |-> "idle", should_run |-> FALSE,
                                         row |-> 0]]
    /\ sqlResult = NoCall
    /\ EncIdle
    /\ GraphIdle
    /\ ZoomIdle

InstanceCheck(i) ==
    /\ instances[i].pc = "idle"
    /\ \E min_interval \in Intervals :
        LET answer == should_run_scrape(scrape_history, now, min_interval)
        IN  /\ instances' = [instances EXCEPT
                                ![i].pc = "checked",
                                ![i].should_run = answer.should_run]
            /\ sqlResult' = [fn |-> "should_run_scrape",
                             returned |-> answer.should_run]
    /\ UNCHANGED <<scrape_history, now, encVars, graphVars, zoomVars>>

InstanceInsert(i) ==
    /\ instances[i].pc = "checked"
    /\ instances[i].should_run
    /\ Len(scrape_history) < MaxRows
    /\ scrape_history' = Append(scrape_history, NewRow(now))
    /\ instances' = [instances EXCEPT ![i].pc = "scraping",
                                      ![i].row = Len(scrape_history) + 1]
    /\ sqlResult' = NoCall
    /\ UNCHANGED <<now, encVars, graphVars, zoomVars>>

InstanceSkip(i) ==
    /\ instances[i].pc = "checked"
    /\ ~instances[i].should_run
    /\ instances' = [instances EXCEPT ![i].pc = "idle"]
    /\ sqlResult' = NoCall
    /\ UNCHANGED <<scrape_history, now, encVars, graphVars, zoomVars>>

\* the scrape ends: its row becomes 'completed' or 'failed'
InstanceFinish(i) ==
    /\ instances[i].pc = "scraping"
    /\ scrape_history[instances[i].row].status = "running"
    /\ \E status \in {"completed", "failed"} :
           scrape_history' = [scrape_history EXCEPT
                                 ![instances[i].row].status = status,
                                 ![instances[i].row].completed_at = <<now>>]
    /\ instances' = [instances EXCEPT ![i].pc = "idle", ![i].row = 0]
    /\ sqlResult' = NoCall
    /\ UNCHANGED <<now, encVars, graphVars, zoomVars>>

\* the instance dies: its row stays 'running'
InstanceCrash(i) ==
    /\ instances[i].pc = "scraping"
    /\ instances' = [instances EXCEPT ![i].pc = "idle", ![i].row = 0]
    /\ sqlResult' = NoCall
    /\ UNCHANGED <<scrape_history, now, encVars, graphVars, zoomVars>>

cleanup_stale_scrapes ==
    /\ scrape_history' = CleanedUp(scrape_history, now)
    /\ sqlResult' = [fn |-> "cleanup_stale_scrapes",
                     returned |-> UpdatedCount(scrape_history, now)]
    /\ UNCHANGED <<now, instances, encVars, graphVars, zoomVars>>

AdvanceTime ==
    /\ now < MaxTime
    /\ now' = now + 1
    /\ sqlResult' = NoCall
    /\ UNCHANGED <<scrape_history, instances, encVars, graphVars, zoomVars>>

NextScrape ==
    \/ \E i \in Instances :
          \/ InstanceCheck(i)
          \/ InstanceInsert(i)
          \/ InstanceSkip(i)
          \/ InstanceFinish(i)
          \/ InstanceCrash(i)
    \/ cleanup_stale_scrapes
    \/ AdvanceTime

SpecScrape == InitScrape /\ [][NextScrape]_vars

---------------------------------------------------------------------------
(* Claims about scrape_history.                                            *)

RecentRunning(history, t) ==
    { i \in Ids(history) : /\ history[i].status = "running"
                           /\ history[i].started_at > t - TwoHours }
RunningRows(history) ==
    { i \in Ids(history) : history[i].status = "running" }
CompletedRows(history) ==
    { i \in Ids(history) : history[i].status = "completed" }
IsFailed(row) == row.status = "failed"
IsNotFailed(row) == ~IsFailed(row)
WithoutFailed(history) == SelectSeq(history, IsNotFailed)
\* every completed scrape finished strictly more than min_interval ago
CompletedLongAgo(history, t, min_interval) ==
    \A i \in CompletedRows(history) :
        /\ history[i].completed_at # Null
        /\ history[i].completed_at[1] < t - min_interval

\* C14: whenever some row is 'running' with started_at later than two hours
\* before now, should_run_scrape answers should_run = FALSE with
\* last_scrape_status = 'running', for every min_interval and whatever
\* completed rows there are.
C14_RunningBlocksNewScrape ==
    \A min_interval \in Intervals :
        RecentRunning(scrape_history, now) # {} =>
            LET answer == should_run_scrape(scrape_history, now, min_interval)
            IN  /\ answer.should_run = FALSE
                /\ answer.last_scrape_status = <<"running">>

\* A recent running row beside an older running row or a completed one, and
\* the call just made answered FALSE.
C14_Witness ==
    /\ sqlResult.fn = "should_run_scrape"
    /\ sqlResult.returned = FALSE
    /\ RecentRunning(scrape_history, now) # {}
    /\ Len(scrape_history) = 2
    /\ \E i \in Ids(scrape_history) : i \notin RecentRunning(scrape_history, now)

\* C15: with no 'running' row started within the last two hours,
\* should_run is TRUE exactly when there is no 'completed' row or the latest
\* completed one finished strictly more than min_interval ago; and 'failed'
\* rows never change the answer.
C15_IntervalGate ==
    \A min_interval \in Intervals :
        LET answer == should_run_scrape(scrape_history, now, min_interval)
        IN  /\ RecentRunning(scrape_history, now) = {} =>
                 answer.should_run =
                     CompletedLongAgo(scrape_history, now, min_interval)
            /\ answer =
                 should_run_scrape(WithoutFailed(scrape_history), now,
                                   min_interval)

\* A completed row exactly min_interval old beside a failed row: the call
\* answers FALSE for that interval and TRUE for a shorter one.
C15_Witness ==
    /\ RecentRunning(scrape_history, now) = {}
    /\ \E i, j \in Ids(scrape_history) :
          /\ scrape_history[i].status = "completed"
          /\ scrape_history[i].completed_at = <<now - 1>>
          /\ scrape_history[j].status = "failed"
    /\ ~should_run_scrape(scrape_history, now, 1).should_run
    /\ should_run_scrape(scrape_history, now, 0).should_run

\* C16: cleanup_stale_scrapes turns into 'failed', with completed_at = now
\* and the stale error message, exactly the rows that are 'running' with
\* started_at earlier than two hours before now, returns how many they are
\* and leaves every other row as it was; called again at the same instant it
\* changes nothing and returns 0.
C16_CleanupStale ==
    [][sqlResult'.fn = "cleanup_stale_scrapes" =>
         /\ Len(scrape_history') = Len(scrape_history)
         /\ \A i \in Ids(scrape_history) :
               IF /\ scrape_history[i].status = "running"
                  /\ scrape_history[i].started_at < now - TwoHours
               THEN /\ scrape_history'[i].status = "failed"
                    /\ scrape_history'[i].completed_at = <<now>>
                    /\ scrape_history'[i].error_message =
                           <<"Scrape timed out - marked as stale">>
                    /\ scrape_history'[i].started_at =
                           scrape_history[i].started_at
               ELSE scrape_history'[i] = scrape_history[i]
         /\ sqlResult'.returned =
               Cardinality({ i \in Ids(scrape_history) :
                               /\ scrape_history[i].status = "running"
                               /\ scrape_history[i].started_at < now - TwoHours })
         /\ now' = now
         /\ CleanedUp(scrape_history', now') = scrape_history'
         /\ UpdatedCount(scrape_history', now') = 0]_vars

\* The call marked a stale row and left another row alone.
C16_Witness ==
    /\ sqlResult.fn = "cleanup_stale_scrapes"
    /\ sqlResult.returned = 1
    /\ \E i, j \in Ids(scrape_history) :
          /\ scrape_history[i].status = "failed"
          /\ scrape_history[i].error_message =
                 <<"Scrape timed out - marked as stale">>
          /\ scrape_history[i].completed_at = <<now>>
          /\ scrape_history[j].status # "failed"

\* C18: while rows stay 'running' and are never cleaned up, as soon as two
\* hours have passed since the start of each of them and every completed
\* scrape is older than min_interval, should_run_scrape answers TRUE: a
\* running row holds new scrapes back for two hours at most.
C18_RunningBlocksAtMostTwoHours ==
    \A min_interval \in Intervals :
        ( /\ RunningRows(scrape_history) # {}
          /\ \A i \in RunningRows(scrape_history) :
                now >= scrape_history[i].started_at + TwoHours
          /\ CompletedLongAgo(scrape_history, now, min_interval) )
        => should_run_scrape(scrape_history, now, min_interval).should_run

\* A row still 'running' exactly two hours after its start, and the call
\* just made answered TRUE.
C18_Witness ==
    /\ sqlResult.fn = "should_run_scrape"
    /\ sqlResult.returned = TRUE
    /\ \E i \in RunningRows(scrape_history) :
          now = scrape_history[i].started_at + TwoHours
    /\ RecentRunning(scrape_history, now) = {}

\* C19: under every interleaving of instances that insert a 'running' row
\* only after should_run_scrape answered TRUE, at most one row is 'running'
\* with started_at within the last two hours.
C19_AtMostOneRunning ==
    Cardinality(RecentRunning(scrape_history, now)) <= 1

=============================================================================
